---- MODULE Spec2Model ----
(***************************************************************************)
(* Authentication / session subsystem of the user-management backend:      *)
(* the verifyToken gate, the /login handlers, /logout, the in-memory       *)
(* activeTokens registry, the routes of the users router, the /users       *)
(* routes of the old server.js and the /ping health check.                 *)
(*                                                                         *)
(* Specifications: Spec (one request at a time, hostile inputs), SpecEnv   *)
(* (the secret may be absent), SpecSession (logouts and restarts),         *)
(* SpecStore (PUT and DELETE /users/:id), SpecAccounts (POST /users and    *)
(* password changes), SpecLegacy (the old server.js) and SpecConc (two     *)
(* requests interleaved at their awaits).                                  *)
(*                                                                         *)
(* Time is counted in ticks of 30 minutes, so the "1h" lifetime that       *)
(* jwt.sign is given is 2 ticks.                                           *)
(***************************************************************************)
EXTENDS Integers, Sequences, FiniteSets, TLC

VARIABLES
    tbl_users,      \* the rows of tbl_users (the Credential Store)
    activeTokens,   \* the Map user id -> token string (the Session Registry)
    SECRET_KEY,     \* process.env.JWT_SECRET as read at module load
    now,            \* the wall clock, in ticks
    issued,         \* the tokens that login responses have handed to clients
    req,            \* the requests in flight, one per slot
    hist            \* history: tokens used in a successful logout, tokens
                    \* that were out when the process last started, what
                    \* the last served logout found in the registry

vars == <<tbl_users, activeTokens, SECRET_KEY, now, issued, req, hist>>

----------------------------------------------------------------------------
(* Bounds *)

MaxTime == 3        \* the clock stops ticking here
MaxIssued == 2      \* logins stop minting tokens once this many are out

(* Program constants *)

ExpiresIn == 2      \* expiresIn: "1h", in ticks of 30 minutes

\* Spec serves one request at a time.
Reqs == {1}

----------------------------------------------------------------------------
(* JavaScript values *)

UNDEF == [t |-> "undefined"]
Str(s) == [t |-> "string", v |-> s]
Num(s) == [t |-> "number", v |-> s]

\* JS truthiness of a body field: undefined, "" and 0 are falsy.
Truthy(x) == /\ x.t # "undefined"
             /\ ~(x.t = "string" /\ x.v = "")
             /\ ~(x.t = "number" /\ x.v = "0")

----------------------------------------------------------------------------
(* Authorization header strings: sequences of atoms, an atom being a      *)
(* space, a word without spaces, or a JWT.                                 *)

SP == [k |-> "sp"]
W(w) == [k |-> "word", w |-> w]
J(tok) == [k |-> "jwt", tok |-> tok]

NoHeader == [t |-> "undefined"]
H(s) == [t |-> "string", s |-> s]

\* String.prototype.split(" "): the segments between the spaces.
RECURSIVE SplitAcc(_, _, _)
SplitAcc(s, cur, acc) ==
    IF s = <<>> THEN Append(acc, cur)
    ELSE IF Head(s).k = "sp"
         THEN SplitAcc(Tail(s), <<>>, Append(acc, cur))
         ELSE SplitAcc(Tail(s), Append(cur, Head(s)), acc)

Split(s) == SplitAcc(s, <<>>, <<>>)

\* A header or token value is falsy when undefined or the empty string.
Falsy(x) == x.t = "undefined" \/ x.s = <<>>

\* const token = authHeader && authHeader.split(' ')[1];
ExtractToken(authHeader) ==
    IF Falsy(authHeader) THEN authHeader
    ELSE LET parts == Split(authHeader.s)
         IN IF Len(parts) >= 2 THEN H(parts[2]) ELSE NoHeader

----------------------------------------------------------------------------
(* jsonwebtoken *)

Signature(key, payload) == <<key, payload>>

\* jwt.sign with { expiresIn: "2h" }
JwtSignTwoHours(identity, key, clock) ==
    LET payload == [id |-> identity.id, fullname |-> identity.fullname,
                    lastname |-> identity.lastname,
                    iat |-> clock, exp |-> clock + ExpiresIn + ExpiresIn]
    IN [payload |-> payload, sig |-> Signature(key, payload)]

\* jwt.sign(payload, key, { expiresIn: "1h" }) at time clock
JwtSign(identity, key, clock) ==
    LET payload == [id |-> identity.id, fullname |-> identity.fullname,
                    lastname |-> identity.lastname,
                    iat |-> clock, exp |-> clock + ExpiresIn]
    IN [payload |-> payload, sig |-> Signature(key, payload)]

\* jwt.decode in place of jwt.verify: no signature or expiry check
JwtDecodeOnly(token, key, clock) ==
    IF Len(token.s) = 1 /\ token.s[1].k = "jwt"
    THEN [ok |-> TRUE, decoded |-> token.s[1].tok.payload]
    ELSE [ok |-> FALSE, decoded |-> UNDEF]

\* jwt.verify with ignoreExpiration
JwtVerifyNoExpiry(token, key, clock) ==
    IF /\ Len(token.s) = 1
       /\ token.s[1].k = "jwt"
       /\ key.t = "string"
       /\ token.s[1].tok.sig = Signature(key, token.s[1].tok.payload)
    THEN [ok |-> TRUE, decoded |-> token.s[1].tok.payload]
    ELSE [ok |-> FALSE, decoded |-> UNDEF]

\* jwt.verify(token, key) at time clock: [ok, decoded]; ok = FALSE is a throw.
JwtVerify(token, key, clock) ==
    IF /\ Len(token.s) = 1
       /\ token.s[1].k = "jwt"
       /\ key.t = "string"
       /\ token.s[1].tok.sig = Signature(key, token.s[1].tok.payload)
       /\ clock < token.s[1].tok.payload.exp
    THEN [ok |-> TRUE, decoded |-> token.s[1].tok.payload]
    ELSE [ok |-> FALSE, decoded |-> UNDEF]

----------------------------------------------------------------------------
(* bcrypt *)

Digest(salt, plain) == <<salt, plain>>

\* bcrypt.hash(plain, 10) with the salt it drew
BcryptHash(plain, salt) == [salt |-> salt, digest |-> Digest(salt, plain)]

\* the promise of bcrypt.compare used without await: always truthy
BcryptCompareNoAwait(data, hash) ==
    [threw |-> data.t # "string", isMatch |-> TRUE]

\* bcrypt.compare(data, hash): rejects unless data is a string
BcryptCompare(data, hash) ==
    IF data.t # "string" THEN [threw |-> TRUE, isMatch |-> FALSE]
    ELSE [threw |-> FALSE, isMatch |-> (Digest(hash.salt, data.v) = hash.digest)]

----------------------------------------------------------------------------
(* Responses *)

NoRes == [status |-> 0]
Res(status, body) == [status |-> status, body |-> body]

----------------------------------------------------------------------------
(* The Credential Store *)

Row(id, first, full, last, uname, plain, salt) ==
    [id |-> id, firstname |-> first, fullname |-> full, lastname |-> last,
     username |-> uname, password |-> BcryptHash(plain, salt), status |-> "active"]

InitialUsers ==
    { Row(1, "Al", "Alice", "Ang", "alice", "pwA", "s1"),
      Row(2, "Bo", "Bob", "Berg", "bob", "pwB", "s2") }

\* the SELECT without its WHERE clause
SelectWithoutWhere(store, username) == store

\* SELECT ... FROM tbl_users WHERE username = ? (usernames are unique)
SelectByUsername(store, username) ==
    { row \in store : username.t = "string" /\ row.username = username.v }

----------------------------------------------------------------------------
(* The Session Registry *)

\* a set that keeps an entry already there
SetActiveTokenKeepFirst(m, userId, token) ==
    IF userId \in DOMAIN m THEN m
    ELSE [k \in DOMAIN m \cup {userId} |-> IF k = userId THEN token ELSE m[k]]

\* a set that writes the token under every key of the Map
SetActiveTokenEveryKey(m, userId, token) ==
    [k \in DOMAIN m \cup {userId} |-> token]

\* activeTokens.set(userId, token)
SetActiveToken(m, userId, token) ==
    [k \in DOMAIN m \cup {userId} |-> IF k = userId THEN token ELSE m[k]]

\* activeTokens.clear() in place of delete
ClearActiveTokenAll(m, userId) == [k \in {} |-> m[k]]

\* activeTokens.delete(userId)
ClearActiveToken(m, userId) == [k \in DOMAIN m \ {userId} |-> m[k]]

----------------------------------------------------------------------------
(* Requests *)

LoginRoutes == {"login_server", "login_router", "login_legacy"}
GatedRoutes == {"logout", "users_list"}
StoreRoutes == {"users_put", "users_delete"}

NoBody == [username |-> UNDEF, password |-> UNDEF]

Idle == [route |-> "none", pc |-> "idle", header |-> NoHeader, body |-> NoBody,
         params |-> UNDEF, gate |-> "none", user |-> UNDEF, rows |-> {},
         res |-> NoRes, calls |-> {}, minted |-> {}]

\* What a client may put in the username and password fields.
Usernames == {UNDEF, Str(""), Str("alice"), Str("bob"), Str("nobody")}
Passwords == {UNDEF, Str(""), Str("pwA"), Str("pwB"), Num("7")}

\* A token with its payload altered after signing.
Tamper(tok) == [tok EXCEPT !.payload.id = 3 - @]

\* A token an outsider signs with a key of their own.
ForgedToken ==
    JwtSign([id |-> 1, fullname |-> "Alice", lastname |-> "Ang"],
            Str("not-the-secret"), MaxTime)

\* The tokens a client can present: those handed out, and fakes.
Presentable == issued \cup {Tamper(tok) : tok \in issued} \cup {ForgedToken}

\* The Authorization headers a client may send.
Headers ==
    {NoHeader, H(<<>>), H(<<W("Bearer")>>), H(<<W("Bearer"), SP>>),
     H(<<W("Bearer"), SP, W("garbage")>>)}
    \cup UNION { { H(<<W("Bearer"), SP, J(tok)>>),
                   H(<<W("Basic"), SP, J(tok)>>),
                   H(<<J(tok)>>),
                   H(<<W("Bearer"), SP, SP, J(tok)>>) } : tok \in Presentable }

InFlightLogins == {q \in DOMAIN req : req[q].route \in LoginRoutes /\ req[q].pc # "done"}

----------------------------------------------------------------------------
(* The auth gate *)

Unauthorized == Res(401, [message |-> "Token not provided"])
Forbidden == Res(403, [message |-> "Invalid or expired token"])

\* verifyToken without its "if (!token)" line: jwt.verify throws on undefined
VerifyTokenNoMissingCheck(rq) ==
    LET token == ExtractToken(rq.header)
        v == IF Falsy(token) THEN [ok |-> FALSE, decoded |-> UNDEF]
             ELSE JwtVerify(token, SECRET_KEY, now)
    IN IF v.ok
       THEN [rq EXCEPT !.user = v.decoded, !.gate = "AUTHENTICATED",
                       !.calls = @ \cup {"jwt.verify", "next"}]
       ELSE [rq EXCEPT !.res = Forbidden, !.gate = "REJECTED",
                       !.calls = @ \cup {"jwt.verify"}]

\* verifyToken whose catch block sends 403 and then falls through to next()
VerifyTokenNextAfterReject(rq) ==
    LET token == ExtractToken(rq.header)
    IN IF Falsy(token)
       THEN [rq EXCEPT !.res = Unauthorized, !.gate = "REJECTED"]
       ELSE LET v == JwtVerify(token, SECRET_KEY, now)
            IN IF v.ok
               THEN [rq EXCEPT !.user = v.decoded, !.gate = "AUTHENTICATED",
                               !.calls = @ \cup {"jwt.verify", "next"}]
               ELSE [rq EXCEPT !.res = Forbidden, !.gate = "REJECTED",
                               !.calls = @ \cup {"jwt.verify", "next"}]

\* verifyToken that also demands activeTokens.has(decoded.id)
VerifyTokenRequiresEntry(rq) ==
    LET token == ExtractToken(rq.header)
    IN IF Falsy(token)
       THEN [rq EXCEPT !.res = Unauthorized, !.gate = "REJECTED"]
       ELSE LET v == JwtVerify(token, SECRET_KEY, now)
            IN IF v.ok /\ v.decoded.id \in DOMAIN activeTokens
               THEN [rq EXCEPT !.user = v.decoded, !.gate = "AUTHENTICATED",
                               !.calls = @ \cup {"jwt.verify", "next"}]
               ELSE [rq EXCEPT !.res = Forbidden, !.gate = "REJECTED",
                               !.calls = @ \cup {"jwt.verify"}]

\* verifyToken that rejects a token other than the one activeTokens holds
\* for its id
VerifyTokenCurrentOnly(rq) ==
    LET token == ExtractToken(rq.header)
    IN IF Falsy(token)
       THEN [rq EXCEPT !.res = Unauthorized, !.gate = "REJECTED"]
       ELSE LET v == JwtVerify(token, SECRET_KEY, now)
            IN IF /\ v.ok
                  /\ v.decoded.id \in DOMAIN activeTokens =>
                        token.s = <<J(activeTokens[v.decoded.id])>>
               THEN [rq EXCEPT !.user = v.decoded, !.gate = "AUTHENTICATED",
                               !.calls = @ \cup {"jwt.verify", "next"}]
               ELSE [rq EXCEPT !.res = Forbidden, !.gate = "REJECTED",
                               !.calls = @ \cup {"jwt.verify"}]

\* verifyToken that looks the decoded identity up in tbl_users
VerifyTokenRechecksStore(rq) ==
    LET token == ExtractToken(rq.header)
    IN IF Falsy(token)
       THEN [rq EXCEPT !.res = Unauthorized, !.gate = "REJECTED"]
       ELSE LET v == JwtVerify(token, SECRET_KEY, now)
            IN IF /\ v.ok
                  /\ \E row \in tbl_users : /\ row.id = v.decoded.id
                                            /\ row.fullname = v.decoded.fullname
                                            /\ row.lastname = v.decoded.lastname
               THEN [rq EXCEPT !.user = v.decoded, !.gate = "AUTHENTICATED",
                               !.calls = @ \cup {"jwt.verify", "next"}]
               ELSE [rq EXCEPT !.res = Forbidden, !.gate = "REJECTED",
                               !.calls = @ \cup {"jwt.verify"}]

\* verifyToken that lets a token jwt.verify refuses through when
\* activeTokens still holds it
VerifyTokenRegistryFallback(rq) ==
    LET token == ExtractToken(rq.header)
    IN IF Falsy(token)
       THEN [rq EXCEPT !.res = Unauthorized, !.gate = "REJECTED"]
       ELSE LET v == JwtVerify(token, SECRET_KEY, now)
                held == {i \in DOMAIN activeTokens : token.s = <<J(activeTokens[i])>>}
            IN IF v.ok \/ held # {}
               THEN [rq EXCEPT !.user = IF v.ok THEN v.decoded
                                        ELSE token.s[1].tok.payload,
                               !.gate = "AUTHENTICATED",
                               !.calls = @ \cup {"jwt.verify", "next"}]
               ELSE [rq EXCEPT !.res = Forbidden, !.gate = "REJECTED",
                               !.calls = @ \cup {"jwt.verify"}]

\* verifyToken(req, res, next), up to and including the call of next()
VerifyToken(rq) ==
    LET token == ExtractToken(rq.header)
    IN IF Falsy(token)
       THEN [rq EXCEPT !.res = Unauthorized, !.gate = "REJECTED"]
       ELSE LET v == JwtVerify(token, SECRET_KEY, now)
            IN IF v.ok
               THEN [rq EXCEPT !.user = v.decoded, !.gate = "AUTHENTICATED",
                               !.calls = @ \cup {"jwt.verify", "next"}]
               ELSE [rq EXCEPT !.res = Forbidden, !.gate = "REJECTED",
                               !.calls = @ \cup {"jwt.verify"}]

----------------------------------------------------------------------------
(* Actions *)

NoHistory == [loggedOut |-> {}, preBoot |-> {}, found |-> "nothing yet"]

Init ==
    /\ tbl_users = InitialUsers
    /\ activeTokens = [k \in {} |-> UNDEF]
    /\ SECRET_KEY = Str("secret")
    /\ now = 0
    /\ issued = {}
    /\ req = [r \in Reqs |-> Idle]
    /\ hist = NoHistory

\* A request for a gated route arrives with its Authorization header.
ArriveGated(r) ==
    /\ req[r].pc = "idle"
    /\ \E route \in GatedRoutes, h \in Headers :
          req' = [req EXCEPT ![r] = [Idle EXCEPT !.route = route, !.pc = "start",
                                                 !.header = h,
                                                 !.gate = "UNAUTHENTICATED"]]
    /\ UNCHANGED <<tbl_users, activeTokens, SECRET_KEY, now, issued>>

\* A login request arrives with its JSON body.
ArriveLogin(r) ==
    /\ req[r].pc = "idle"
    /\ Cardinality(issued) + Cardinality(InFlightLogins) < MaxIssued
    /\ \E route \in LoginRoutes, u \in Usernames, p \in Passwords :
          req' = [req EXCEPT ![r] = [Idle EXCEPT !.route = route, !.pc = "start",
                                                 !.body = [username |-> u,
                                                           password |-> p]]]
    /\ UNCHANGED <<tbl_users, activeTokens, SECRET_KEY, now, issued>>

\* a logout that clears the entry only if it holds the presented token
LogoutIfCurrent(r) ==
    /\ req[r].pc = "start"
    /\ req[r].route = "logout"
    /\ LET g == VerifyToken(req[r])
       IN IF g.gate = "AUTHENTICATED"
          THEN /\ activeTokens' =
                     IF /\ g.user.id \in DOMAIN activeTokens
                        /\ g.header.s[3] = J(activeTokens[g.user.id])
                     THEN ClearActiveToken(activeTokens, g.user.id)
                     ELSE activeTokens
               /\ req' = [req EXCEPT ![r] =
                            [g EXCEPT !.calls = @ \cup {"activeTokens.delete"},
                                      !.res = Res(200, [status |-> "ok",
                                                        message |-> "Logged out"]),
                                      !.pc = "done"]]
          ELSE /\ activeTokens' = activeTokens
               /\ req' = [req EXCEPT ![r] = [g EXCEPT !.pc = "done"]]
    /\ UNCHANGED <<tbl_users, SECRET_KEY, now, issued>>

\* a logout that answers 404 when activeTokens.delete finds no entry
LogoutNotFound(r) ==
    /\ req[r].pc = "start"
    /\ req[r].route = "logout"
    /\ LET g == VerifyToken(req[r])
       IN IF g.gate = "AUTHENTICATED"
          THEN /\ activeTokens' = ClearActiveToken(activeTokens, g.user.id)
               /\ req' = [req EXCEPT ![r] =
                            [g EXCEPT !.calls = @ \cup {"activeTokens.delete"},
                                      !.res = IF g.user.id \in DOMAIN activeTokens
                                              THEN Res(200, [status |-> "ok",
                                                             message |-> "Logged out"])
                                              ELSE Res(404, [status |-> "error",
                                                             message |-> "No session"]),
                                      !.pc = "done"]]
          ELSE /\ activeTokens' = activeTokens
               /\ req' = [req EXCEPT ![r] = [g EXCEPT !.pc = "done"]]
    /\ UNCHANGED <<tbl_users, SECRET_KEY, now, issued>>

\* app.post("/logout", verifyToken, (req, res) => { ... })
Logout(r) ==
    /\ req[r].pc = "start"
    /\ req[r].route = "logout"
    /\ LET g == VerifyToken(req[r])
       IN IF g.gate = "AUTHENTICATED"
          THEN /\ activeTokens' = ClearActiveToken(activeTokens, g.user.id)
               /\ req' = [req EXCEPT ![r] =
                            [g EXCEPT !.calls = @ \cup {"activeTokens.delete"},
                                      !.res = Res(200, [status |-> "ok",
                                                        message |-> "Logged out"]),
                                      !.pc = "done"]]
          ELSE /\ activeTokens' = activeTokens
               /\ req' = [req EXCEPT ![r] = [g EXCEPT !.pc = "done"]]
    /\ UNCHANGED <<tbl_users, SECRET_KEY, now, issued>>

\* router.get('/', verifyToken, async ...): the gate, then the query is sent
UsersList_Start(r) ==
    /\ req[r].pc = "start"
    /\ req[r].route = "users_list"
    /\ LET g == VerifyToken(req[r])
       IN IF g.gate = "AUTHENTICATED"
          THEN req' = [req EXCEPT ![r] =
                         [g EXCEPT !.calls = @ \cup {"store.query"},
                                   !.pc = "await_query"]]
          ELSE req' = [req EXCEPT ![r] = [g EXCEPT !.pc = "done"]]
    /\ UNCHANGED <<tbl_users, activeTokens, SECRET_KEY, now, issued>>

\* ... the query resolves: res.json(rows)
UsersList_Rows(r) ==
    /\ req[r].pc = "await_query"
    /\ req[r].route = "users_list"
    /\ req' = [req EXCEPT ![r].pc = "done",
                          ![r].calls = @ \cup {"store.rows"},
                          ![r].res = Res(200, {[id |-> row.id,
                                                firstname |-> row.firstname,
                                                fullname |-> row.fullname,
                                                lastname |-> row.lastname]
                                               : row \in tbl_users})]
    /\ UNCHANGED <<tbl_users, activeTokens, SECRET_KEY, now, issued>>

\* ... the query rejects: 500 "Query failed"
UsersList_DbError(r) ==
    /\ req[r].pc = "await_query"
    /\ req[r].route = "users_list"
    /\ req' = [req EXCEPT ![r].pc = "done",
                          ![r].calls = @ \cup {"store.error"},
                          ![r].res = Res(500, [error |-> "Query failed"])]
    /\ UNCHANGED <<tbl_users, activeTokens, SECRET_KEY, now, issued>>

----------------------------------------------------------------------------
(* Login *)

NULL == [t |-> "null"]

\* requireFields(obj, keys): the first key that is undefined, null or ""
RECURSIVE RequireFields(_, _)
RequireFields(body, keys) ==
    IF keys = <<>> THEN NULL
    ELSE IF body[Head(keys)].t \in {"undefined", "null"} \/ body[Head(keys)] = Str("")
         THEN Str(Head(keys))
         ELSE RequireFields(body, Tail(keys))

\* ["username", "password"].find((field) => !req.body[field] || req.body[field] === "")
RECURSIVE FindFalsy(_, _)
FindFalsy(body, keys) ==
    IF keys = <<>> THEN UNDEF
    ELSE IF ~Truthy(body[Head(keys)]) \/ body[Head(keys)] = Str("")
         THEN Str(Head(keys))
         ELSE FindFalsy(body, Tail(keys))

\* The field the handler of a route reports as missing (a falsy value if none);
\* routes/auth.js validates nothing.
Missing(route, body) ==
    IF route = "login_server" THEN RequireFields(body, <<"username", "password">>)
    ELSE IF route = "login_router" THEN FindFalsy(body, <<"username", "password">>)
    ELSE UNDEF

\* Whether the handler of a route records the token in activeTokens.
RecordsToken(route) == route \in {"login_server", "login_router"}

\* a catch block that answers with the caught error's own message
LoginFailedRaw == Res(500, [error |-> "connect ECONNREFUSED"])

LoginFailed == Res(500, [error |-> "Login failed"])

\* router.post / app.post("/login"): validation, then the SELECT is sent
Login_Start(r) ==
    /\ req[r].pc = "start"
    /\ req[r].route \in LoginRoutes
    /\ LET missing == Missing(req[r].route, req[r].body)
       IN IF missing.t = "string"
          THEN req' = [req EXCEPT ![r].res =
                          Res(400, [error |-> <<"Missing required field: ", missing.v>>]),
                                  ![r].pc = "done"]
          ELSE req' = [req EXCEPT ![r].calls = @ \cup {"store.query"},
                                  ![r].pc = "await_query"]
    /\ UNCHANGED <<tbl_users, activeTokens, SECRET_KEY, now, issued>>

\* ... the SELECT resolves: no rows -> 401, else bcrypt.compare is started
Login_Rows(r) ==
    /\ req[r].pc = "await_query"
    /\ req[r].route \in LoginRoutes
    /\ LET rows == SelectByUsername(tbl_users, req[r].body.username)
       IN IF rows = {}
          THEN req' = [req EXCEPT ![r].res = Res(401, [error |-> "User not found"]),
                                  ![r].calls = @ \cup {"store.rows"},
                                  ![r].pc = "done"]
          ELSE req' = [req EXCEPT ![r].rows = rows,
                                  ![r].calls = @ \cup {"store.rows", "bcrypt.compare"},
                                  ![r].pc = "await_compare"]
    /\ UNCHANGED <<tbl_users, activeTokens, SECRET_KEY, now, issued>>

\* ... the SELECT rejects: caught, 500 "Login failed"
Login_DbError(r) ==
    /\ req[r].pc = "await_query"
    /\ req[r].route \in LoginRoutes
    /\ req' = [req EXCEPT ![r].res = LoginFailed, ![r].pc = "done",
                          ![r].calls = @ \cup {"store.error"}]
    /\ UNCHANGED <<tbl_users, activeTokens, SECRET_KEY, now, issued>>

\* a handler with an await between jwt.sign and setActiveToken: the token
\* recorded now was signed at an earlier instant
Login_CompareAwaitBetween(r) ==
    /\ req[r].pc = "await_compare"
    /\ req[r].route \in LoginRoutes
    /\ \E signedAt \in 0..now :
       LET user == CHOOSE row \in req[r].rows : TRUE
           c == BcryptCompare(req[r].body.password, user.password)
           token == JwtSign(user, SECRET_KEY, signedAt)
       IN IF c.threw \/ (c.isMatch /\ SECRET_KEY.t # "string")
          THEN /\ req' = [req EXCEPT ![r].res = LoginFailed, ![r].pc = "done"]
               /\ UNCHANGED <<activeTokens, issued>>
          ELSE IF ~c.isMatch
          THEN /\ req' = [req EXCEPT ![r].res = Res(401, [error |-> "Invalid password"]),
                                     ![r].pc = "done"]
               /\ UNCHANGED <<activeTokens, issued>>
          ELSE /\ activeTokens' = IF RecordsToken(req[r].route)
                                  THEN SetActiveToken(activeTokens, user.id, token)
                                  ELSE activeTokens
               /\ issued' = issued \cup {token}
               /\ req' = [req EXCEPT ![r].minted = {token},
                                     ![r].calls = @ \cup {"jwt.sign"} \cup
                                         (IF RecordsToken(req[r].route)
                                          THEN {"activeTokens.set"} ELSE {}),
                                     ![r].res = Res(200, [message |-> "Login successful",
                                                          token |-> token]),
                                     ![r].pc = "done"]
    /\ UNCHANGED <<tbl_users, SECRET_KEY, now>>

\* ... bcrypt.compare settles: throw -> 500, mismatch -> 401, match -> sign,
\* record, respond
Login_Compare(r) ==
    /\ req[r].pc = "await_compare"
    /\ req[r].route \in LoginRoutes
    /\ LET user == CHOOSE row \in req[r].rows : TRUE
           c == BcryptCompare(req[r].body.password, user.password)
           token == JwtSign(user, SECRET_KEY, now)
       IN IF c.threw \/ (c.isMatch /\ SECRET_KEY.t # "string")
          THEN /\ req' = [req EXCEPT ![r].res = LoginFailed, ![r].pc = "done"]
               /\ UNCHANGED <<activeTokens, issued>>
          ELSE IF ~c.isMatch
          THEN /\ req' = [req EXCEPT ![r].res = Res(401, [error |-> "Invalid password"]),
                                     ![r].pc = "done"]
               /\ UNCHANGED <<activeTokens, issued>>
          ELSE /\ activeTokens' = IF RecordsToken(req[r].route)
                                  THEN SetActiveToken(activeTokens, user.id, token)
                                  ELSE activeTokens
               /\ issued' = issued \cup {token}
               /\ req' = [req EXCEPT ![r].minted = {token},
                                     ![r].calls = @ \cup {"jwt.sign"} \cup
                                         (IF RecordsToken(req[r].route)
                                          THEN {"activeTokens.set"} ELSE {}),
                                     ![r].res = Res(200, [message |-> "Login successful",
                                                          token |-> token]),
                                     ![r].pc = "done"]
    /\ UNCHANGED <<tbl_users, SECRET_KEY, now>>

----------------------------------------------------------------------------

\* The response has gone out; the slot is free for the next request.
Recycle(r) ==
    /\ req[r].pc = "done"
    /\ req' = [req EXCEPT ![r] = Idle]
    /\ UNCHANGED <<tbl_users, activeTokens, SECRET_KEY, now, issued>>

Tick ==
    /\ now < MaxTime
    /\ now' = now + 1
    /\ UNCHANGED <<tbl_users, activeTokens, SECRET_KEY, issued, req>>

----------------------------------------------------------------------------
(* GET /ping *)

\* The errors the database driver may reject a query with.
DbErrors ==
    { [message |-> "connect ECONNREFUSED 127.0.0.1:3306", code |-> Str("ECONNREFUSED")],
      [message |-> "Table 'db.tbl_users' doesn't exist", code |-> Str("ER_NO_SUCH_TABLE")],
      [message |-> "Query inactivity timeout", code |-> UNDEF] }

\* sendDbError(res, err)
SendDbError(err) ==
    Res(500, [status |-> "error",
              message |-> err.message,
              code |-> IF err.code.t = "undefined" THEN NULL ELSE err.code])

ArrivePing(r) ==
    /\ req[r].pc = "idle"
    /\ req' = [req EXCEPT ![r] = [Idle EXCEPT !.route = "ping", !.pc = "start"]]
    /\ UNCHANGED <<tbl_users, activeTokens, SECRET_KEY, now, issued>>

\* app.get("/ping"): runQuery("SELECT NOW() AS now") is sent
Ping_Start(r) ==
    /\ req[r].pc = "start"
    /\ req[r].route = "ping"
    /\ req' = [req EXCEPT ![r].calls = @ \cup {"store.query"},
                          ![r].pc = "await_query"]
    /\ UNCHANGED <<tbl_users, activeTokens, SECRET_KEY, now, issued>>

\* ... the query resolves
Ping_Rows(r) ==
    /\ req[r].pc = "await_query"
    /\ req[r].route = "ping"
    /\ req' = [req EXCEPT ![r].pc = "done",
                          ![r].calls = @ \cup {"store.rows"},
                          ![r].res = Res(200, [status |-> "ok", time |-> now])]
    /\ UNCHANGED <<tbl_users, activeTokens, SECRET_KEY, now, issued>>

\* ... the query rejects with err: sendDbError(res, err)
Ping_DbError(r) ==
    /\ req[r].pc = "await_query"
    /\ req[r].route = "ping"
    /\ \E err \in DbErrors :
          req' = [req EXCEPT ![r].pc = "done",
                             ![r].calls = @ \cup {"store.error"},
                             ![r].res = SendDbError(err)]
    /\ UNCHANGED <<tbl_users, activeTokens, SECRET_KEY, now, issued>>

----------------------------------------------------------------------------

Next ==
    \/ \E r \in Reqs : ArriveGated(r) /\ UNCHANGED hist
    \/ \E r \in Reqs : ArriveLogin(r) /\ UNCHANGED hist
    \/ \E r \in Reqs : ArrivePing(r) /\ UNCHANGED hist
    \/ \E r \in Reqs : Logout(r) /\ UNCHANGED hist
    \/ \E r \in Reqs : UsersList_Start(r) /\ UNCHANGED hist
    \/ \E r \in Reqs : UsersList_Rows(r) /\ UNCHANGED hist
    \/ \E r \in Reqs : UsersList_DbError(r) /\ UNCHANGED hist
    \/ \E r \in Reqs : Login_Start(r) /\ UNCHANGED hist
    \/ \E r \in Reqs : Login_Rows(r) /\ UNCHANGED hist
    \/ \E r \in Reqs : Login_DbError(r) /\ UNCHANGED hist
    \/ \E r \in Reqs : Login_Compare(r) /\ UNCHANGED hist
    \/ \E r \in Reqs : Ping_Start(r) /\ UNCHANGED hist
    \/ \E r \in Reqs : Ping_Rows(r) /\ UNCHANGED hist
    \/ \E r \in Reqs : Ping_DbError(r) /\ UNCHANGED hist
    \/ \E r \in Reqs : Recycle(r) /\ UNCHANGED hist
    \/ Tick /\ UNCHANGED hist

Spec == Init /\ [][Next]_vars

\* The process started from an environment that may lack JWT_SECRET:
\* process.env.JWT_SECRET is then undefined, and nothing checks it.
InitEnv ==
    /\ tbl_users = InitialUsers
    /\ activeTokens = [k \in {} |-> UNDEF]
    /\ SECRET_KEY \in {Str("secret"), UNDEF}
    /\ now = 0
    /\ issued = {}
    /\ req = [r \in Reqs |-> Idle]
    /\ hist = NoHistory

SpecEnv == InitEnv /\ [][Next]_vars

----------------------------------------------------------------------------
(* The users router: PUT /users/:id and DELETE /users/:id *)

\* The ids a client puts in the path: alice's, and one no record has.
ParamIds == {1, 9}

\* The JSON bodies a client sends with PUT: new names, or a new password.
PutBodies ==
    { [firstname |-> Str("Al"), fullname |-> Str("Alicia"), lastname |-> Str("Ang"),
       password |-> UNDEF],
      [firstname |-> Str("Al"), fullname |-> Str("Alice"), lastname |-> Str("Ang"),
       password |-> Str("pwN")] }

\* The headers of a client that holds tokens it was handed, or none.
SessionHeaders == {NoHeader} \cup {H(<<W("Bearer"), SP, J(tok)>>) : tok \in issued}

\* The salt bcrypt.hash draws for a changed password.
NewSalt == "s9"

\* UPDATE tbl_users SET firstname = ?, fullname = ?, lastname = ?
\* [, password = ?] WHERE id = ?
UpdateUser(store, id, body) ==
    { IF row.id = id
      THEN [row EXCEPT !.firstname = body.firstname.v,
                       !.fullname = body.fullname.v,
                       !.lastname = body.lastname.v,
                       !.password = IF Truthy(body.password)
                                    THEN BcryptHash(body.password.v, NewSalt)
                                    ELSE @]
      ELSE row : row \in store }

\* DELETE FROM tbl_users WHERE id = ?
DeleteUser(store, id) == {row \in store : row.id # id}

\* result.affectedRows of a statement with WHERE id = ?
AffectedRows(store, id) == Cardinality({row \in store : row.id = id})

UserNotFound == Res(404, [message |-> "User not found"])

\* the global fallback error handler
InternalError == Res(500, [status |-> "error", message |-> "Internal server error"])

\* A PUT or DELETE /users/:id request arrives.
ArriveStore(r) ==
    /\ req[r].pc = "idle"
    /\ \E route \in StoreRoutes, h \in SessionHeaders, id \in ParamIds :
         \E b \in IF route = "users_put" THEN PutBodies ELSE {NoBody} :
            req' = [req EXCEPT ![r] = [Idle EXCEPT !.route = route, !.pc = "start",
                                                   !.header = h, !.params = id,
                                                   !.body = b,
                                                   !.gate = "UNAUTHENTICATED"]]
    /\ UNCHANGED <<tbl_users, activeTokens, SECRET_KEY, now, issued>>

\* router.put('/:id', verifyToken, async ...): the gate, then bcrypt.hash is
\* started if a password came, else the UPDATE is sent
UsersPut_Start(r) ==
    /\ req[r].pc = "start"
    /\ req[r].route = "users_put"
    /\ LET g == VerifyToken(req[r])
       IN IF g.gate # "AUTHENTICATED"
          THEN req' = [req EXCEPT ![r] = [g EXCEPT !.pc = "done"]]
          ELSE IF Truthy(g.body.password)
          THEN req' = [req EXCEPT ![r] =
                         [g EXCEPT !.calls = @ \cup {"bcrypt.hash"},
                                   !.pc = "await_hash"]]
          ELSE req' = [req EXCEPT ![r] =
                         [g EXCEPT !.calls = @ \cup {"store.query"},
                                   !.pc = "await_query"]]
    /\ UNCHANGED <<tbl_users, activeTokens, SECRET_KEY, now, issued>>

\* ... bcrypt.hash settles (it throws on a password that is not a string)
UsersPut_Hashed(r) ==
    /\ req[r].pc = "await_hash"
    /\ req[r].route = "users_put"
    /\ IF req[r].body.password.t = "string"
       THEN req' = [req EXCEPT ![r].calls = @ \cup {"store.query"},
                               ![r].pc = "await_query"]
       ELSE req' = [req EXCEPT ![r].res = Res(500, [error |-> "Update failed"]),
                               ![r].pc = "done"]
    /\ UNCHANGED <<tbl_users, activeTokens, SECRET_KEY, now, issued>>

\* ... the UPDATE resolves: 404 if no row was matched
UsersPut_Done(r) ==
    /\ req[r].pc = "await_query"
    /\ req[r].route = "users_put"
    /\ tbl_users' = UpdateUser(tbl_users, req[r].params, req[r].body)
    /\ req' = [req EXCEPT ![r].calls = @ \cup {"store.rows"},
                          ![r].res = IF AffectedRows(tbl_users, req[r].params) = 0
                                     THEN UserNotFound
                                     ELSE Res(200, [message |-> "User updated successfully"]),
                          ![r].pc = "done"]
    /\ UNCHANGED <<activeTokens, SECRET_KEY, now, issued>>

\* ... the UPDATE rejects: 500 "Update failed"
UsersPut_DbError(r) ==
    /\ req[r].pc = "await_query"
    /\ req[r].route = "users_put"
    /\ req' = [req EXCEPT ![r].calls = @ \cup {"store.error"},
                          ![r].res = Res(500, [error |-> "Update failed"]),
                          ![r].pc = "done"]
    /\ UNCHANGED <<tbl_users, activeTokens, SECRET_KEY, now, issued>>

\* router.delete('/:id', verifyToken, async ...): the gate, then the DELETE
\* is sent
UsersDelete_Start(r) ==
    /\ req[r].pc = "start"
    /\ req[r].route = "users_delete"
    /\ LET g == VerifyToken(req[r])
       IN IF g.gate = "AUTHENTICATED"
          THEN req' = [req EXCEPT ![r] =
                         [g EXCEPT !.calls = @ \cup {"store.query"},
                                   !.pc = "await_query"]]
          ELSE req' = [req EXCEPT ![r] = [g EXCEPT !.pc = "done"]]
    /\ UNCHANGED <<tbl_users, activeTokens, SECRET_KEY, now, issued>>

\* ... the DELETE resolves: 404 if no row was matched
UsersDelete_Done(r) ==
    /\ req[r].pc = "await_query"
    /\ req[r].route = "users_delete"
    /\ tbl_users' = DeleteUser(tbl_users, req[r].params)
    /\ req' = [req EXCEPT ![r].calls = @ \cup {"store.rows"},
                          ![r].res = IF AffectedRows(tbl_users, req[r].params) = 0
                                     THEN UserNotFound
                                     ELSE Res(200, [message |-> "User deleted"]),
                          ![r].pc = "done"]
    /\ UNCHANGED <<activeTokens, SECRET_KEY, now, issued>>

\* ... the DELETE rejects: next(err), answered by the fallback error handler
UsersDelete_DbError(r) ==
    /\ req[r].pc = "await_query"
    /\ req[r].route = "users_delete"
    /\ req' = [req EXCEPT ![r].calls = @ \cup {"store.error"},
                          ![r].res = InternalError,
                          ![r].pc = "done"]
    /\ UNCHANGED <<tbl_users, activeTokens, SECRET_KEY, now, issued>>

----------------------------------------------------------------------------
(* Sessions: clients that log in, use the tokens they were handed and log  *)
(* out, while the process is restarted or the store is edited              *)

\* The credentials of the clients.
SessionLogins ==
    { [username |-> Str("alice"), password |-> Str("pwA")],
      [username |-> Str("bob"), password |-> Str("pwB")] }

\* A client logs in at the server's /login.
ArriveSessionLogin(r) ==
    /\ req[r].pc = "idle"
    /\ Cardinality(issued) + Cardinality(InFlightLogins) < MaxIssued
    /\ \E b \in SessionLogins :
          req' = [req EXCEPT ![r] = [Idle EXCEPT !.route = "login_server",
                                                 !.pc = "start", !.body = b]]
    /\ UNCHANGED <<tbl_users, activeTokens, SECRET_KEY, now, issued>>

\* A client calls /logout or GET /users.
ArriveSession(r) ==
    /\ req[r].pc = "idle"
    /\ \E route \in GatedRoutes, h \in SessionHeaders :
          req' = [req EXCEPT ![r] = [Idle EXCEPT !.route = route, !.pc = "start",
                                                 !.header = h,
                                                 !.gate = "UNAUTHENTICATED"]]
    /\ UNCHANGED <<tbl_users, activeTokens, SECRET_KEY, now, issued>>

\* a restart with activeTokens kept in a file and read back
RestartPersisted ==
    /\ req' = [r \in Reqs |-> Idle]
    /\ UNCHANGED <<tbl_users, activeTokens, SECRET_KEY, now, issued>>

\* The process is stopped and started again: the module is loaded anew, so
\* activeTokens is a new Map; requests in flight are dropped.
Restart ==
    /\ activeTokens' = [k \in {} |-> UNDEF]
    /\ req' = [r \in Reqs |-> Idle]
    /\ UNCHANGED <<tbl_users, SECRET_KEY, now, issued>>

\* The tokens a logout step of request r was served on.
LoggedOutOn(r) ==
    IF req'[r].res.status = 200
    THEN {tok \in issued : req[r].header = H(<<W("Bearer"), SP, J(tok)>>)}
    ELSE {}

\* What activeTokens held for the owner of the token a logout step of
\* request r was served on: no entry, that same token, or another one.
FoundOn(r) ==
    IF LoggedOutOn(r) = {} THEN hist.found
    ELSE LET tok == CHOOSE t \in LoggedOutOn(r) : TRUE
         IN IF tok.payload.id \notin DOMAIN activeTokens THEN "none"
            ELSE IF activeTokens[tok.payload.id] = tok THEN "same"
            ELSE "other"

NextSession ==
    \/ \E r \in Reqs : ArriveSessionLogin(r) /\ UNCHANGED hist
    \/ \E r \in Reqs : ArriveSession(r) /\ UNCHANGED hist
    \/ \E r \in Reqs : /\ Logout(r)
                       /\ hist' = [hist EXCEPT !.loggedOut = @ \cup LoggedOutOn(r),
                                               !.found = FoundOn(r)]
    \/ \E r \in Reqs : UsersList_Start(r) /\ UNCHANGED hist
    \/ \E r \in Reqs : UsersList_Rows(r) /\ UNCHANGED hist
    \/ \E r \in Reqs : UsersList_DbError(r) /\ UNCHANGED hist
    \/ \E r \in Reqs : Login_Start(r) /\ UNCHANGED hist
    \/ \E r \in Reqs : Login_Rows(r) /\ UNCHANGED hist
    \/ \E r \in Reqs : Login_DbError(r) /\ UNCHANGED hist
    \/ \E r \in Reqs : Login_Compare(r) /\ UNCHANGED hist
    \/ \E r \in Reqs : Recycle(r) /\ UNCHANGED hist
    \/ Restart /\ hist' = [hist EXCEPT !.preBoot = issued]
    \/ Tick /\ UNCHANGED hist

\* Sessions with logouts and restarts.
SpecSession == Init /\ [][NextSession]_vars

NextStore ==
    \/ \E r \in Reqs : ArriveSessionLogin(r) /\ UNCHANGED hist
    \/ \E r \in Reqs : ArriveStore(r) /\ UNCHANGED hist
    \/ \E r \in Reqs : Login_Start(r) /\ UNCHANGED hist
    \/ \E r \in Reqs : Login_Rows(r) /\ UNCHANGED hist
    \/ \E r \in Reqs : Login_DbError(r) /\ UNCHANGED hist
    \/ \E r \in Reqs : Login_Compare(r) /\ UNCHANGED hist
    \/ \E r \in Reqs : UsersPut_Start(r) /\ UNCHANGED hist
    \/ \E r \in Reqs : UsersPut_Hashed(r) /\ UNCHANGED hist
    \/ \E r \in Reqs : UsersPut_Done(r) /\ UNCHANGED hist
    \/ \E r \in Reqs : UsersPut_DbError(r) /\ UNCHANGED hist
    \/ \E r \in Reqs : UsersDelete_Start(r) /\ UNCHANGED hist
    \/ \E r \in Reqs : UsersDelete_Done(r) /\ UNCHANGED hist
    \/ \E r \in Reqs : UsersDelete_DbError(r) /\ UNCHANGED hist
    \/ \E r \in Reqs : Recycle(r) /\ UNCHANGED hist
    \/ Tick /\ UNCHANGED hist

\* Sessions while the store is edited through PUT and DELETE.
SpecStore == Init /\ [][NextStore]_vars

----------------------------------------------------------------------------
(* POST /users of the users router: accounts are created without a token   *)

\* The JSON bodies a client sends with POST /users: a new user, one with an
\* empty username, one without a password, one whose password is a number,
\* and one whose username is taken.
PostBodies ==
    { [firstname |-> Str("Ca"), fullname |-> Str("Carol"), lastname |-> Str("Cho"),
       username |-> Str(u), password |-> p, status |-> Str("active")] :
         u \in {"carol", "", "alice"}, p \in {Str("pwC")} }
    \cup
    { [firstname |-> Str("Ca"), fullname |-> Str("Carol"), lastname |-> Str("Cho"),
       username |-> Str("carol"), password |-> p, status |-> Str("active")] :
         p \in {UNDEF, Num("7")} }

\* result.insertId: the AUTO_INCREMENT id, one past the largest id in use
\* (ParamIds never names the newest record, so no id is handed out twice)
InsertId(store) ==
    1 + (CHOOSE m \in {row.id : row \in store} \cup {0} :
            \A row \in store : row.id <= m)

\* the unique index on username refuses a second record of that name
ER_DUP_ENTRY(store, body) == \E row \in store : row.username = body.username.v

\* an INSERT that writes the password as it came
InsertUserPlain(store, body) ==
    store \cup { [id |-> InsertId(store), firstname |-> body.firstname.v,
                  fullname |-> body.fullname.v, lastname |-> body.lastname.v,
                  username |-> body.username.v, password |-> body.password,
                  status |-> body.status.v] }

\* INSERT INTO tbl_users (firstname, fullname, lastname, username, password,
\* status) VALUES (?, ?, ?, ?, hashedPassword, ?)
InsertUser(store, body) ==
    store \cup { [id |-> InsertId(store), firstname |-> body.firstname.v,
                  fullname |-> body.fullname.v, lastname |-> body.lastname.v,
                  username |-> body.username.v,
                  password |-> BcryptHash(body.password.v, NewSalt),
                  status |-> body.status.v] }

PasswordRequired == Res(400, [error |-> "Password is required"])
InsertFailed == Res(500, [error |-> "Insert failed"])

\* res.json({ id: result.insertId, firstname, fullname, lastname, username,
\* status })
Created(store, body) ==
    Res(200, [id |-> InsertId(store), firstname |-> body.firstname,
              fullname |-> body.fullname, lastname |-> body.lastname,
              username |-> body.username, status |-> body.status])

\* router.post('/', async ...): no gate; 400 without a password, else
\* bcrypt.hash is started
UsersPost_Start(r) ==
    /\ req[r].pc = "start"
    /\ req[r].route = "users_post"
    /\ IF ~Truthy(req[r].body.password)
       THEN req' = [req EXCEPT ![r].res = PasswordRequired, ![r].pc = "done"]
       ELSE req' = [req EXCEPT ![r].calls = @ \cup {"bcrypt.hash"},
                               ![r].pc = "await_hash"]
    /\ UNCHANGED <<tbl_users, activeTokens, SECRET_KEY, now, issued>>

\* ... bcrypt.hash settles (it throws on a password that is not a string),
\* and the INSERT is sent
UsersPost_Hashed(r) ==
    /\ req[r].pc = "await_hash"
    /\ req[r].route = "users_post"
    /\ IF req[r].body.password.t = "string"
       THEN req' = [req EXCEPT ![r].calls = @ \cup {"store.query"},
                               ![r].pc = "await_query"]
       ELSE req' = [req EXCEPT ![r].res = InsertFailed, ![r].pc = "done"]
    /\ UNCHANGED <<tbl_users, activeTokens, SECRET_KEY, now, issued>>

\* ... the INSERT resolves, or is refused by the unique index
UsersPost_Done(r) ==
    /\ req[r].pc = "await_query"
    /\ req[r].route = "users_post"
    /\ IF ER_DUP_ENTRY(tbl_users, req[r].body)
       THEN /\ req' = [req EXCEPT ![r].calls = @ \cup {"store.error"},
                                  ![r].res = InsertFailed, ![r].pc = "done"]
            /\ UNCHANGED tbl_users
       ELSE /\ tbl_users' = InsertUser(tbl_users, req[r].body)
            /\ req' = [req EXCEPT ![r].calls = @ \cup {"store.rows"},
                                  ![r].res = Created(tbl_users, req[r].body),
                                  ![r].pc = "done"]
    /\ UNCHANGED <<activeTokens, SECRET_KEY, now, issued>>

\* ... the INSERT rejects: 500 "Insert failed"
UsersPost_DbError(r) ==
    /\ req[r].pc = "await_query"
    /\ req[r].route = "users_post"
    /\ req' = [req EXCEPT ![r].calls = @ \cup {"store.error"},
                          ![r].res = InsertFailed, ![r].pc = "done"]
    /\ UNCHANGED <<tbl_users, activeTokens, SECRET_KEY, now, issued>>

\* The credentials clients try at /login once accounts are created and
\* passwords are changed.
AccountLogins ==
    { [username |-> Str(u), password |-> Str(p)] :
         u \in {"alice", "carol", ""}, p \in {"pwA", "pwC", "pwN"} }

\* The PUT body that changes the password.
PasswordBodies == {b \in PutBodies : Truthy(b.password)}

\* A client logs in at the server's /login.
ArriveAccountLogin(r) ==
    /\ req[r].pc = "idle"
    /\ Cardinality(issued) + Cardinality(InFlightLogins) < MaxIssued
    /\ \E b \in AccountLogins :
          req' = [req EXCEPT ![r] = [Idle EXCEPT !.route = "login_server",
                                                 !.pc = "start", !.body = b]]
    /\ UNCHANGED <<tbl_users, activeTokens, SECRET_KEY, now, issued>>

\* A client sends POST /users.
ArrivePost(r) ==
    /\ req[r].pc = "idle"
    /\ \E b \in PostBodies :
          req' = [req EXCEPT ![r] = [Idle EXCEPT !.route = "users_post",
                                                 !.pc = "start", !.body = b]]
    /\ UNCHANGED <<tbl_users, activeTokens, SECRET_KEY, now, issued>>

\* A client sends PUT /users/:id with a new password.
ArrivePassword(r) ==
    /\ req[r].pc = "idle"
    /\ \E h \in SessionHeaders, id \in ParamIds, b \in PasswordBodies :
          req' = [req EXCEPT ![r] = [Idle EXCEPT !.route = "users_put",
                                                 !.pc = "start", !.header = h,
                                                 !.params = id, !.body = b,
                                                 !.gate = "UNAUTHENTICATED"]]
    /\ UNCHANGED <<tbl_users, activeTokens, SECRET_KEY, now, issued>>

NextAccounts ==
    \/ \E r \in Reqs : ArriveAccountLogin(r) /\ UNCHANGED hist
    \/ \E r \in Reqs : ArrivePost(r) /\ UNCHANGED hist
    \/ \E r \in Reqs : ArrivePassword(r) /\ UNCHANGED hist
    \/ \E r \in Reqs : Login_Start(r) /\ UNCHANGED hist
    \/ \E r \in Reqs : Login_Rows(r) /\ UNCHANGED hist
    \/ \E r \in Reqs : Login_DbError(r) /\ UNCHANGED hist
    \/ \E r \in Reqs : Login_Compare(r) /\ UNCHANGED hist
    \/ \E r \in Reqs : UsersPost_Start(r) /\ UNCHANGED hist
    \/ \E r \in Reqs : UsersPost_Hashed(r) /\ UNCHANGED hist
    \/ \E r \in Reqs : UsersPost_Done(r) /\ UNCHANGED hist
    \/ \E r \in Reqs : UsersPost_DbError(r) /\ UNCHANGED hist
    \/ \E r \in Reqs : UsersPut_Start(r) /\ UNCHANGED hist
    \/ \E r \in Reqs : UsersPut_Hashed(r) /\ UNCHANGED hist
    \/ \E r \in Reqs : UsersPut_Done(r) /\ UNCHANGED hist
    \/ \E r \in Reqs : UsersPut_DbError(r) /\ UNCHANGED hist
    \/ \E r \in Reqs : Recycle(r) /\ UNCHANGED hist
    \/ Tick /\ UNCHANGED hist

\* Accounts are created, their passwords changed, and their owners log in.
SpecAccounts == Init /\ [][NextAccounts]_vars

----------------------------------------------------------------------------
(* The old server.js: /users routes declared on the app itself             *)

OldRoutes == {"old_users_get", "old_users_delete", "old_users_post", "old_users_put"}

\* Express's own error handler, which answers a next(err) when the app
\* declares none: status 500 and an HTML page, with the stack trace unless
\* NODE_ENV is "production"
DefaultErrorPages ==
    { Res(500, [html |-> page]) : page \in {"Internal Server Error", "stack trace"} }

\* SELECT * FROM tbl_users WHERE id = ?
SelectById(store, id) == {row \in store : row.id = id}

\* res.json({ id: result.insertId, firstname, fullname, lastname, username,
\* password, status })
OldCreated(store, body) ==
    Res(200, [id |-> InsertId(store), firstname |-> body.firstname,
              fullname |-> body.fullname, lastname |-> body.lastname,
              username |-> body.username, password |-> body.password,
              status |-> body.status])

\* A client logs in at the old server's /login.
ArriveOldLogin(r) ==
    /\ req[r].pc = "idle"
    /\ Cardinality(issued) + Cardinality(InFlightLogins) < MaxIssued
    /\ \E b \in SessionLogins :
          req' = [req EXCEPT ![r] = [Idle EXCEPT !.route = "login_legacy",
                                                 !.pc = "start", !.body = b]]
    /\ UNCHANGED <<tbl_users, activeTokens, SECRET_KEY, now, issued>>

\* A request for one of the old server's /users routes arrives.
ArriveOld(r) ==
    /\ req[r].pc = "idle"
    /\ \E route \in OldRoutes, h \in SessionHeaders, id \in ParamIds :
         \E b \in IF route = "old_users_put" THEN PutBodies
                  ELSE IF route = "old_users_post" THEN PostBodies
                  ELSE {NoBody} :
            req' = [req EXCEPT ![r] =
                      [Idle EXCEPT !.route = route, !.pc = "start", !.header = h,
                                   !.params = IF route = "old_users_post"
                                              THEN UNDEF ELSE id,
                                   !.body = b,
                                   !.gate = IF route = "old_users_get"
                                            THEN "UNAUTHENTICATED" ELSE "none"]]
    /\ UNCHANGED <<tbl_users, activeTokens, SECRET_KEY, now, issued>>

\* app.get("/users/:id", verifyToken, async ...): the gate, then the SELECT
\* is sent
OldGet_Start(r) ==
    /\ req[r].pc = "start"
    /\ req[r].route = "old_users_get"
    /\ LET g == VerifyToken(req[r])
       IN IF g.gate = "AUTHENTICATED"
          THEN req' = [req EXCEPT ![r] =
                         [g EXCEPT !.calls = @ \cup {"store.query"},
                                   !.pc = "await_query"]]
          ELSE req' = [req EXCEPT ![r] = [g EXCEPT !.pc = "done"]]
    /\ UNCHANGED <<tbl_users, activeTokens, SECRET_KEY, now, issued>>

\* ... the SELECT resolves: 404 if no row came, else the row
OldGet_Rows(r) ==
    /\ req[r].pc = "await_query"
    /\ req[r].route = "old_users_get"
    /\ LET rows == SelectById(tbl_users, req[r].params)
       IN req' = [req EXCEPT ![r].calls = @ \cup {"store.rows"},
                             ![r].rows = rows,
                             ![r].res = IF rows = {} THEN UserNotFound
                                        ELSE Res(200, CHOOSE row \in rows : TRUE),
                             ![r].pc = "done"]
    /\ UNCHANGED <<tbl_users, activeTokens, SECRET_KEY, now, issued>>

\* ... the SELECT rejects: next(err)
OldGet_DbError(r) ==
    /\ req[r].pc = "await_query"
    /\ req[r].route = "old_users_get"
    /\ \E page \in DefaultErrorPages :
          req' = [req EXCEPT ![r].calls = @ \cup {"store.error"},
                             ![r].res = page, ![r].pc = "done"]
    /\ UNCHANGED <<tbl_users, activeTokens, SECRET_KEY, now, issued>>

\* app.delete("/users/:id", async ...): no gate; the DELETE is sent
OldDelete_Start(r) ==
    /\ req[r].pc = "start"
    /\ req[r].route = "old_users_delete"
    /\ req' = [req EXCEPT ![r].calls = @ \cup {"store.query"},
                          ![r].pc = "await_query"]
    /\ UNCHANGED <<tbl_users, activeTokens, SECRET_KEY, now, issued>>

\* ... the DELETE resolves with a ResultSetHeader, which has no length:
\* "rows.length === 0" is false whatever was deleted, and rows[0] is
\* undefined, so the answer is 200 with no body
OldDelete_Done(r) ==
    /\ req[r].pc = "await_query"
    /\ req[r].route = "old_users_delete"
    /\ tbl_users' = DeleteUser(tbl_users, req[r].params)
    /\ req' = [req EXCEPT ![r].calls = @ \cup {"store.rows"},
                          ![r].res = Res(200, UNDEF),
                          ![r].pc = "done"]
    /\ UNCHANGED <<activeTokens, SECRET_KEY, now, issued>>

\* ... the DELETE rejects: next(err)
OldDelete_DbError(r) ==
    /\ req[r].pc = "await_query"
    /\ req[r].route = "old_users_delete"
    /\ \E page \in DefaultErrorPages :
          req' = [req EXCEPT ![r].calls = @ \cup {"store.error"},
                             ![r].res = page, ![r].pc = "done"]
    /\ UNCHANGED <<tbl_users, activeTokens, SECRET_KEY, now, issued>>

\* app.post("/users", async ...): no gate; 400 without a password, else
\* bcrypt.hash is started
OldPost_Start(r) ==
    /\ req[r].pc = "start"
    /\ req[r].route = "old_users_post"
    /\ IF ~Truthy(req[r].body.password)
       THEN req' = [req EXCEPT ![r].res = PasswordRequired, ![r].pc = "done"]
       ELSE req' = [req EXCEPT ![r].calls = @ \cup {"bcrypt.hash"},
                               ![r].pc = "await_hash"]
    /\ UNCHANGED <<tbl_users, activeTokens, SECRET_KEY, now, issued>>

\* ... bcrypt.hash settles, and the INSERT is sent
OldPost_Hashed(r) ==
    /\ req[r].pc = "await_hash"
    /\ req[r].route = "old_users_post"
    /\ IF req[r].body.password.t = "string"
       THEN req' = [req EXCEPT ![r].calls = @ \cup {"store.query"},
                               ![r].pc = "await_query"]
       ELSE req' = [req EXCEPT ![r].res = InsertFailed, ![r].pc = "done"]
    /\ UNCHANGED <<tbl_users, activeTokens, SECRET_KEY, now, issued>>

\* ... the INSERT resolves, or is refused by the unique index; the answer
\* repeats the request's fields, the password among them
OldPost_Done(r) ==
    /\ req[r].pc = "await_query"
    /\ req[r].route = "old_users_post"
    /\ IF ER_DUP_ENTRY(tbl_users, req[r].body)
       THEN /\ req' = [req EXCEPT ![r].calls = @ \cup {"store.error"},
                                  ![r].res = InsertFailed, ![r].pc = "done"]
            /\ UNCHANGED tbl_users
       ELSE /\ tbl_users' = InsertUser(tbl_users, req[r].body)
            /\ req' = [req EXCEPT ![r].calls = @ \cup {"store.rows"},
                                  ![r].res = OldCreated(tbl_users, req[r].body),
                                  ![r].pc = "done"]
    /\ UNCHANGED <<activeTokens, SECRET_KEY, now, issued>>

\* ... the INSERT rejects: 500 "Insert failed"
OldPost_DbError(r) ==
    /\ req[r].pc = "await_query"
    /\ req[r].route = "old_users_post"
    /\ req' = [req EXCEPT ![r].calls = @ \cup {"store.error"},
                          ![r].res = InsertFailed, ![r].pc = "done"]
    /\ UNCHANGED <<tbl_users, activeTokens, SECRET_KEY, now, issued>>

\* app.put("/users/:id", async ...): no gate; bcrypt.hash is started if a
\* password came, else the UPDATE is sent
OldPut_Start(r) ==
    /\ req[r].pc = "start"
    /\ req[r].route = "old_users_put"
    /\ IF Truthy(req[r].body.password)
       THEN req' = [req EXCEPT ![r].calls = @ \cup {"bcrypt.hash"},
                               ![r].pc = "await_hash"]
       ELSE req' = [req EXCEPT ![r].calls = @ \cup {"store.query"},
                               ![r].pc = "await_query"]
    /\ UNCHANGED <<tbl_users, activeTokens, SECRET_KEY, now, issued>>

\* ... bcrypt.hash settles, and the UPDATE is sent
OldPut_Hashed(r) ==
    /\ req[r].pc = "await_hash"
    /\ req[r].route = "old_users_put"
    /\ IF req[r].body.password.t = "string"
       THEN req' = [req EXCEPT ![r].calls = @ \cup {"store.query"},
                               ![r].pc = "await_query"]
       ELSE req' = [req EXCEPT ![r].res = Res(500, [error |-> "Update failed"]),
                               ![r].pc = "done"]
    /\ UNCHANGED <<tbl_users, activeTokens, SECRET_KEY, now, issued>>

\* ... the UPDATE resolves: 404 if no row was matched
OldPut_Done(r) ==
    /\ req[r].pc = "await_query"
    /\ req[r].route = "old_users_put"
    /\ tbl_users' = UpdateUser(tbl_users, req[r].params, req[r].body)
    /\ req' = [req EXCEPT ![r].calls = @ \cup {"store.rows"},
                          ![r].res = IF AffectedRows(tbl_users, req[r].params) = 0
                                     THEN UserNotFound
                                     ELSE Res(200, [message |-> "User updated successfully"]),
                          ![r].pc = "done"]
    /\ UNCHANGED <<activeTokens, SECRET_KEY, now, issued>>

\* ... the UPDATE rejects: 500 "Update failed"
OldPut_DbError(r) ==
    /\ req[r].pc = "await_query"
    /\ req[r].route = "old_users_put"
    /\ req' = [req EXCEPT ![r].calls = @ \cup {"store.error"},
                          ![r].res = Res(500, [error |-> "Update failed"]),
                          ![r].pc = "done"]
    /\ UNCHANGED <<tbl_users, activeTokens, SECRET_KEY, now, issued>>

NextLegacy ==
    \/ \E r \in Reqs : ArriveOldLogin(r) /\ UNCHANGED hist
    \/ \E r \in Reqs : ArriveOld(r) /\ UNCHANGED hist
    \/ \E r \in Reqs : Login_Start(r) /\ UNCHANGED hist
    \/ \E r \in Reqs : Login_Rows(r) /\ UNCHANGED hist
    \/ \E r \in Reqs : Login_DbError(r) /\ UNCHANGED hist
    \/ \E r \in Reqs : Login_Compare(r) /\ UNCHANGED hist
    \/ \E r \in Reqs : OldGet_Start(r) /\ UNCHANGED hist
    \/ \E r \in Reqs : OldGet_Rows(r) /\ UNCHANGED hist
    \/ \E r \in Reqs : OldGet_DbError(r) /\ UNCHANGED hist
    \/ \E r \in Reqs : OldDelete_Start(r) /\ UNCHANGED hist
    \/ \E r \in Reqs : OldDelete_Done(r) /\ UNCHANGED hist
    \/ \E r \in Reqs : OldDelete_DbError(r) /\ UNCHANGED hist
    \/ \E r \in Reqs : OldPost_Start(r) /\ UNCHANGED hist
    \/ \E r \in Reqs : OldPost_Hashed(r) /\ UNCHANGED hist
    \/ \E r \in Reqs : OldPost_Done(r) /\ UNCHANGED hist
    \/ \E r \in Reqs : OldPost_DbError(r) /\ UNCHANGED hist
    \/ \E r \in Reqs : OldPut_Start(r) /\ UNCHANGED hist
    \/ \E r \in Reqs : OldPut_Hashed(r) /\ UNCHANGED hist
    \/ \E r \in Reqs : OldPut_Done(r) /\ UNCHANGED hist
    \/ \E r \in Reqs : OldPut_DbError(r) /\ UNCHANGED hist
    \/ \E r \in Reqs : Recycle(r) /\ UNCHANGED hist

\* The old server.js with its own /login and /users routes, over a span in
\* which no token expires.
SpecLegacy == Init /\ [][NextLegacy]_vars

----------------------------------------------------------------------------
(* Concurrent requests: two requests in flight, interleaved at their awaits *)

\* The requests the server has in flight at once.
ConcReqs == {1, 2}

InitConc ==
    /\ tbl_users = InitialUsers
    /\ activeTokens = [k \in {} |-> UNDEF]
    /\ SECRET_KEY = Str("secret")
    /\ now = 0
    /\ issued = {}
    /\ req = [r \in ConcReqs |-> Idle]
    /\ hist = NoHistory

\* A client logs in at the server's /login or at the router mounted there.
ArriveConcLogin(r) ==
    /\ req[r].pc = "idle"
    /\ Cardinality(issued) + Cardinality(InFlightLogins) < MaxIssued
    /\ \E route \in {"login_server", "login_router"}, b \in SessionLogins :
          req' = [req EXCEPT ![r] = [Idle EXCEPT !.route = route,
                                                 !.pc = "start", !.body = b]]
    /\ UNCHANGED <<tbl_users, activeTokens, SECRET_KEY, now, issued>>

\* A client calls /logout with a token it was handed.
ArriveConcLogout(r) ==
    /\ req[r].pc = "idle"
    /\ \E tok \in issued :
          req' = [req EXCEPT ![r] = [Idle EXCEPT !.route = "logout", !.pc = "start",
                                                 !.header = H(<<W("Bearer"), SP, J(tok)>>),
                                                 !.gate = "UNAUTHENTICATED"]]
    /\ UNCHANGED <<tbl_users, activeTokens, SECRET_KEY, now, issued>>

NextConc ==
    \/ \E r \in ConcReqs : ArriveConcLogin(r) /\ UNCHANGED hist
    \/ \E r \in ConcReqs : ArriveConcLogout(r) /\ UNCHANGED hist
    \/ \E r \in ConcReqs : Logout(r) /\ UNCHANGED hist
    \/ \E r \in ConcReqs : Login_Start(r) /\ UNCHANGED hist
    \/ \E r \in ConcReqs : Login_Rows(r) /\ UNCHANGED hist
    \/ \E r \in ConcReqs : Login_DbError(r) /\ UNCHANGED hist
    \/ \E r \in ConcReqs : Login_Compare(r) /\ UNCHANGED hist
    \/ \E r \in ConcReqs : Recycle(r) /\ UNCHANGED hist
    \/ Tick /\ UNCHANGED hist

\* Logins and logouts served two at a time.
SpecConc == InitConc /\ [][NextConc]_vars

----------------------------------------------------------------------------
(* Vocabulary of the properties *)

Gated(rq) == rq.route \in GatedRoutes

\* The gate has run on the request.
GateRan(rq) == Gated(rq) /\ rq.pc # "start"

\* Step: the gate runs on request r.
GateStep(r) == Gated(req[r]) /\ req[r].pc = "start" /\ req'[r].pc # "start"

DownstreamInvoked(rq) == "next" \in rq.calls
VerifierConsulted(rq) == "jwt.verify" \in rq.calls
IdentityAttached(rq) == rq.user # UNDEF

\* A token string that is one JWT carrying the signature of its own payload
\* under the server's secret.
GenuineJwt(token) ==
    /\ token.t = "string"
    /\ Len(token.s) = 1
    /\ token.s[1].k = "jwt"
    /\ token.s[1].tok.sig = <<SECRET_KEY, token.s[1].tok.payload>>

PassesVerification(token, clock) ==
    /\ GenuineJwt(token)
    /\ clock < token.s[1].tok.payload.exp

\* Authorization: Bearer <token>
BearerShape(h) ==
    /\ h.t = "string"
    /\ Len(h.s) = 3
    /\ h.s[1] = W("Bearer")
    /\ h.s[2] = SP
    /\ h.s[3].k # "sp"

----------------------------------------------------------------------------
(* C1: a gated request that carries no Authorization header is answered    *)
(* 401 {message: "Token not provided"}, gets no identity attached, and its *)
(* downstream handler is never invoked.                                    *)
C1_NoHeaderRejected401 ==
    \A r \in Reqs :
        (GateRan(req[r]) /\ req[r].header = NoHeader) =>
            /\ req[r].pc = "done"
            /\ req[r].res = Res(401, [message |-> "Token not provided"])
            /\ ~IdentityAttached(req[r])
            /\ ~DownstreamInvoked(req[r])

C1_Witness ==
    \E r \in Reqs : GateRan(req[r]) /\ req[r].header = NoHeader

C3_DownstreamIffVerified ==
    [][\A r \in Reqs :
         LET token == ExtractToken(req[r].header)
         IN GateStep(r) =>
               /\ DownstreamInvoked(req'[r]) <=>
                     (~Falsy(token) /\ PassesVerification(token, now))
               /\ DownstreamInvoked(req'[r]) =>
                     \E tok \in issued :
                        /\ token.s = <<J(tok)>>
                        /\ req'[r].user.id = tok.payload.id
                        /\ req'[r].user.fullname = tok.payload.fullname
                        /\ req'[r].user.lastname = tok.payload.lastname]_vars

C3_Witness ==
    \E r \in Reqs :
        /\ GateRan(req[r])
        /\ DownstreamInvoked(req[r])
        /\ req[r].user.id = 2
        /\ req[r].user.fullname = "Bob"

(* C4: every Authorization header that is not of the shape Bearer <token>   *)
(* is rejected with 401 "Token not provided" without the verifier being     *)
(* consulted.                                                               *)
C4_NonBearerTreatedAsMissing ==
    \A r \in Reqs :
        (GateRan(req[r]) /\ ~BearerShape(req[r].header)) =>
            /\ req[r].res = Res(401, [message |-> "Token not provided"])
            /\ ~VerifierConsulted(req[r])
            /\ ~DownstreamInvoked(req[r])

(* C5: a request enters the gate UNAUTHENTICATED with nothing sent and     *)
(* nothing invoked; the gate's run takes it to exactly one of              *)
(* AUTHENTICATED (downstream invoked, no 401/403 sent) and REJECTED (401   *)
(* or 403 sent, downstream not invoked); that outcome is kept for the rest *)
(* of the request; and the gate's run is never blocked, so every request   *)
(* that entered the gate can reach its outcome.                            *)
Authenticated(rq) ==
    /\ DownstreamInvoked(rq)
    /\ IdentityAttached(rq)
    /\ rq.res.status \notin {401, 403}

Rejected(rq) ==
    /\ rq.res \in {Unauthorized, Forbidden}
    /\ rq.pc = "done"
    /\ ~DownstreamInvoked(rq)

Unauthenticated(rq) ==
    /\ rq.pc = "start"
    /\ rq.res = NoRes
    /\ ~DownstreamInvoked(rq)
    /\ ~IdentityAttached(rq)

C5_GateStep(r) ==
    /\ (req[r].pc = "idle" /\ Gated(req'[r])) => Unauthenticated(req'[r])
    /\ (Gated(req[r]) /\ Unauthenticated(req[r])) =>
           ENABLED (Logout(r) \/ UsersList_Start(r))
    /\ GateStep(r) => (Authenticated(req'[r]) \/ Rejected(req'[r]))
    /\ Gated(req'[r]) => ~(Authenticated(req'[r]) /\ Rejected(req'[r]))
    /\ (Gated(req'[r]) /\ Authenticated(req[r])) => Authenticated(req'[r])
    /\ (Gated(req'[r]) /\ Rejected(req[r])) => Rejected(req'[r])

C5_GateStateMachine == [][\A r \in Reqs : C5_GateStep(r)]_vars

\* Both terminal states are seen: a request that went downstream and finished.
C5_Witness ==
    \E r \in Reqs :
        /\ Gated(req[r])
        /\ Authenticated(req[r])
        /\ req[r].pc = "done"
        /\ req[r].route = "users_list"

----------------------------------------------------------------------------
(* Login and logout properties *)

Login(rq) == rq.route \in LoginRoutes

\* A body field that is missing or empty.
MissingOrEmpty(x) == x = UNDEF \/ x = Str("")

\* No row of the store carries this username.
NoRecordFor(username) == \A row \in tbl_users : Str(row.username) # username

\* The plaintext is a string whose salted digest is the stored one.
MatchesHash(plain, hash) ==
    /\ plain.t = "string"
    /\ hash = [salt |-> hash.salt, digest |-> <<hash.salt, plain.v>>]

NothingIssuedOrRecorded(rq) ==
    /\ rq.minted = {}
    /\ "jwt.sign" \notin rq.calls
    /\ "activeTokens.set" \notin rq.calls

(* C6: a login request whose username or password is missing or empty is   *)
(* answered 400 with an error naming the missing field; the store is not   *)
(* queried, no token is issued and the registry is not written.            *)
C6_MissingFieldRejected400 ==
    \A r \in Reqs :
        (/\ Login(req[r])
         /\ req[r].pc # "start"
         /\ \/ MissingOrEmpty(req[r].body.username)
            \/ MissingOrEmpty(req[r].body.password)) =>
            /\ req[r].pc = "done"
            /\ req[r].res.status = 400
            /\ \E f \in {"username", "password"} :
                  /\ MissingOrEmpty(req[r].body[f])
                  /\ req[r].res.body = [error |-> <<"Missing required field: ", f>>]
            /\ "store.query" \notin req[r].calls
            /\ NothingIssuedOrRecorded(req[r])

(* C7: when the lookup of a login request completes and no record carries  *)
(* the username, the response is 401 {error: "User not found"}; no         *)
(* password verification is started, no token is issued and the registry   *)
(* is unchanged.                                                           *)
C7_UnknownUser401 ==
    [][\A r \in Reqs :
         (/\ Login(req[r])
          /\ req[r].pc = "await_query"
          /\ "store.rows" \in req'[r].calls
          /\ NoRecordFor(req[r].body.username)) =>
            /\ req'[r].pc = "done"
            /\ req'[r].res = Res(401, [error |-> "User not found"])
            /\ "bcrypt.compare" \notin req'[r].calls
            /\ NothingIssuedOrRecorded(req'[r])
            /\ issued' = issued
            /\ activeTokens' = activeTokens]_vars

C7_Witness ==
    \E r \in Reqs :
        /\ Login(req[r])
        /\ "store.rows" \in req[r].calls
        /\ req[r].body.username = Str("nobody")
        /\ req[r].res.status = 401

(* C8: when the password check of a login request settles and the password *)
(* is not the one the fetched record's hash was made from, the response is *)
(* 401 {error: "Invalid password"}; no token is issued and the registry is *)
(* unchanged.                                                              *)
C8_WrongPassword401 ==
    [][\A r \in Reqs :
         (/\ Login(req[r])
          /\ req[r].pc = "await_compare"
          /\ req'[r].pc # "await_compare"
          /\ req[r].body.password.t = "string"
          /\ \A row \in req[r].rows :
                ~MatchesHash(req[r].body.password, row.password)) =>
            /\ req'[r].pc = "done"
            /\ req'[r].res = Res(401, [error |-> "Invalid password"])
            /\ NothingIssuedOrRecorded(req'[r])
            /\ issued' = issued
            /\ activeTokens' = activeTokens]_vars

C8_Witness ==
    \E r \in Reqs :
        /\ Login(req[r])
        /\ req[r].pc = "done"
        /\ req[r].body = [username |-> Str("alice"), password |-> Str("pwB")]
        /\ req[r].rows # {}
        /\ req[r].res.status = 401

C10_LogoutClearsOnlyOwnEntry ==
    [][\A r \in Reqs :
         (/\ req[r].route = "logout"
          /\ GateStep(r)
          /\ DownstreamInvoked(req'[r])) =>
            LET i == req'[r].user.id
            IN /\ i \notin DOMAIN activeTokens'
               /\ req'[r].pc = "done"
               /\ req'[r].res = Res(200, [status |-> "ok", message |-> "Logged out"])
               /\ DOMAIN activeTokens' = DOMAIN activeTokens \ {i}
               /\ \A j \in DOMAIN activeTokens \ {i} :
                     activeTokens'[j] = activeTokens[j]]_vars

\* alice has logged out and bob's entry is still there.
C10_Witness ==
    \E r \in Reqs :
        /\ req[r].route = "logout"
        /\ req[r].res.status = 200
        /\ req[r].user.id = 1
        /\ DOMAIN activeTokens = {2}
        /\ \E tok \in issued : tok.payload.id = 1

----------------------------------------------------------------------------
(* Sessions over time *)

\* Authorization: Bearer <tok>
Bearer(tok) == H(<<W("Bearer"), SP, J(tok)>>)

\* Step: a login of a recording handler succeeds for request r.
LoginSucceeds(r) ==
    /\ req[r].route \in {"login_server", "login_router"}
    /\ req[r].pc = "await_compare"
    /\ req'[r].res.status = 200

(* C12: when a login succeeds for a user who was returned a token by an    *)
(* earlier login, the token now returned is none of the tokens returned    *)
(* before, and afterwards activeTokens holds the new token for that id.    *)
C12_SecondLoginNewToken ==
    [][\A r \in Reqs :
         LoginSucceeds(r) =>
            LET new == req'[r].res.body.token
            IN (\E old \in issued : old.payload.id = new.payload.id) =>
                  /\ new \notin issued
                  /\ activeTokens'[new.payload.id] = new]_vars

(* C13: when the gate runs on a request that presents, as Bearer token, an *)
(* unexpired token that login issued for id i while activeTokens holds     *)
(* another token for i, the request is authenticated with the presented    *)
(* token's identity and the downstream handler is invoked.                 *)
C13_OverwrittenTokenStillAccepted ==
    [][\A r \in Reqs, tok \in issued :
         (/\ GateStep(r)
          /\ req[r].header = Bearer(tok)
          /\ now < tok.payload.exp
          /\ tok.payload.id \in DOMAIN activeTokens
          /\ activeTokens[tok.payload.id] # tok) =>
            /\ req'[r].gate = "AUTHENTICATED"
            /\ DownstreamInvoked(req'[r])
            /\ req'[r].user = tok.payload]_vars

\* A request was authenticated on a token older than the one the registry
\* holds for the same id.
C13_Witness ==
    \E r \in Reqs, tok \in issued :
        /\ GateRan(req[r])
        /\ req[r].header = Bearer(tok)
        /\ req[r].gate = "AUTHENTICATED"
        /\ tok.payload.id \in DOMAIN activeTokens
        /\ activeTokens[tok.payload.id].payload.iat > tok.payload.iat

C15_LogoutFailureIs401 ==
    \A r \in Reqs :
        (/\ req[r].route = "logout"
         /\ GateRan(req[r])
         /\ req[r].gate # "AUTHENTICATED") =>
            /\ req[r].res.status = 401
            /\ "activeTokens.delete" \notin req[r].calls

(* C16: when the query of a login request rejects, or its password check   *)
(* throws, the response is 500 {error: "Login failed"}, no token is issued *)
(* and activeTokens is unchanged.                                          *)
C16_LoginUpstreamFailure500 ==
    [][\A r \in Reqs :
         (/\ Login(req[r])
          /\ \/ /\ req[r].pc = "await_query"
                /\ "store.error" \in req'[r].calls
             \/ /\ req[r].pc = "await_compare"
                /\ req'[r].pc # "await_compare"
                /\ req[r].body.password.t # "string") =>
            /\ req'[r].pc = "done"
            /\ req'[r].res = Res(500, [error |-> "Login failed"])
            /\ NothingIssuedOrRecorded(req'[r])
            /\ issued' = issued
            /\ activeTokens' = activeTokens]_vars

\* The password check of a login threw on a password that is not a string.
C16_Witness ==
    \E r \in Reqs :
        /\ Login(req[r])
        /\ req[r].pc = "done"
        /\ req[r].rows # {}
        /\ req[r].body.password.t # "string"
        /\ req[r].res = Res(500, [error |-> "Login failed"])

----------------------------------------------------------------------------
(* Failures of the collaborators *)

\* The response body repeats the driver's message or its error code.
CarriesDetail(body, err) ==
    \/ "message" \in DOMAIN body /\ body.message = err.message
    \/ "error" \in DOMAIN body /\ body.error = err.message
    \/ "code" \in DOMAIN body /\ body.code = err.code

(* C17: whenever a request's database query has failed, on any endpoint,   *)
(* the response body carries neither the driver's error message nor its    *)
(* error code.                                                             *)
C17_NoDriverDetailInResponse ==
    \A r \in Reqs :
        ("store.error" \in req[r].calls /\ req[r].pc = "done") =>
            \A err \in DbErrors : ~CarriesDetail(req[r].res.body, err)

\* The handler of the request has begun to serve it.
Processed(rq) == rq.pc \in {"await_query", "await_compare", "done"}

(* C18: a process whose JWT_SECRET is absent serves no login and no         *)
(* protected request, and answers none with an error.                      *)
C18_AbsentSecretServesNothing ==
    SECRET_KEY.t # "string" =>
        \A r \in Reqs :
            (Login(req[r]) \/ Gated(req[r])) =>
                /\ ~Processed(req[r])
                /\ req[r].res = NoRes

----------------------------------------------------------------------------
(* Tokens outliving what the server knows *)

\* Step: the gate runs on request r of a token-gated route (a restart
\* drops the request instead).
ProtectedStep(r) ==
    /\ req[r].route \in GatedRoutes \cup StoreRoutes
    /\ req[r].pc = "start"
    /\ req'[r].pc \notin {"start", "idle"}

\* The step of r ends with the request authenticated as the bearer of tok.
AcceptedAs(r, tok) ==
    /\ req'[r].gate = "AUTHENTICATED"
    /\ DownstreamInvoked(req'[r])
    /\ req'[r].user = tok.payload

(* C11: when the gate runs on a request that presents, as Bearer token, an *)
(* unexpired token on which a logout was served earlier, the request is    *)
(* authenticated with the token's identity and the downstream handler is   *)
(* invoked, whether or not activeTokens has an entry for that id.          *)
C11_LoggedOutTokenStillAccepted ==
    [][\A r \in Reqs, tok \in hist.loggedOut :
         (/\ ProtectedStep(r)
          /\ req[r].header = Bearer(tok)
          /\ now < tok.payload.exp) =>
            AcceptedAs(r, tok)]_vars

\* GET /users was authenticated on a token its owner had logged out with,
\* the registry having no entry for the owner.
C11_Witness ==
    \E r \in Reqs, tok \in hist.loggedOut :
        /\ req[r].route = "users_list"
        /\ req[r].header = Bearer(tok)
        /\ req[r].gate = "AUTHENTICATED"
        /\ tok.payload.id \notin DOMAIN activeTokens

(* C19: a restart that finds tokens out leaves activeTokens empty, and     *)
(* when the gate then runs on a request that presents, as Bearer token, an *)
(* unexpired token issued before the restart, the request is authenticated *)
(* with the token's identity and the downstream handler is invoked.        *)
C19_RestartForgetsRegistryNotTokens ==
    [][/\ hist'.preBoot # hist.preBoot => DOMAIN activeTokens' = {}
       /\ \A r \in Reqs, tok \in hist.preBoot :
            (/\ ProtectedStep(r)
             /\ req[r].header = Bearer(tok)
             /\ now < tok.payload.exp) =>
               AcceptedAs(r, tok)]_vars

\* A request was authenticated on a token from before the restart that was
\* never used to log out; the registry has no entry for its owner.
C19_Witness ==
    \E r \in Reqs, tok \in hist.preBoot \ hist.loggedOut :
        /\ req[r].route = "users_list"
        /\ req[r].header = Bearer(tok)
        /\ req[r].gate = "AUTHENTICATED"
        /\ tok.payload.id \notin DOMAIN activeTokens

\* The record a token was issued for is gone.
Deleted(tok) == \A row \in tbl_users : row.id # tok.payload.id

\* The record a token was issued for now carries other names.
Renamed(tok) ==
    \E row \in tbl_users :
        /\ row.id = tok.payload.id
        /\ \/ row.fullname # tok.payload.fullname
           \/ row.lastname # tok.payload.lastname

(* C20: when the gate runs on a request that presents, as Bearer token, an *)
(* unexpired issued token whose user record has since been deleted or      *)
(* renamed, the request is authenticated and req.user is the identity the  *)
(* token was issued with.                                                  *)
C20_StaleIdentityAccepted ==
    [][\A r \in Reqs, tok \in issued :
         (/\ ProtectedStep(r)
          /\ req[r].header = Bearer(tok)
          /\ now < tok.payload.exp
          /\ Deleted(tok) \/ Renamed(tok)) =>
            AcceptedAs(r, tok)]_vars

\* A request has passed the gate as Alice on a token of user 1, whose
\* record an earlier request deleted.
C20_Witness ==
    \E r \in Reqs, tok \in issued :
        /\ req[r].header = Bearer(tok)
        /\ req[r].gate = "AUTHENTICATED"
        /\ req[r].pc = "await_query"
        /\ Deleted(tok)
        /\ req[r].user.fullname = "Alice"

\* A request was authenticated as Alice on a token of user 1, whose record
\* says Alicia.
C20_WitnessRenamed ==
    \E r \in Reqs, tok \in issued :
        /\ req[r].header = Bearer(tok)
        /\ req[r].gate = "AUTHENTICATED"
        /\ req[r].route = "users_delete"
        /\ req[r].pc = "await_query"
        /\ Renamed(tok)
        /\ req[r].user.fullname = "Alice"

----------------------------------------------------------------------------
(* Logout and the registry *)

\* Step: the logout of request r is served on the Bearer token tok.
LogoutServedOn(r, tok) ==
    /\ req[r].route = "logout"
    /\ req[r].pc = "start"
    /\ req[r].header = Bearer(tok)
    /\ req'[r].gate = "AUTHENTICATED"

LoggedOut == Res(200, [status |-> "ok", message |-> "Logged out"])

(* C27: when a logout is served on a token of user i while activeTokens    *)
(* holds another token for i, the entry for i is removed all the same and  *)
(* the answer is 200; the token that was stored is not looked at.          *)
C27_LogoutClearsByIdOnly ==
    [][\A r \in Reqs, tok \in issued :
         (/\ LogoutServedOn(r, tok)
          /\ tok.payload.id \in DOMAIN activeTokens
          /\ activeTokens[tok.payload.id] # tok) =>
            /\ tok.payload.id \notin DOMAIN activeTokens'
            /\ req'[r].res = LoggedOut]_vars

\* login(t1), login(t2), logout(t1): the logout on t1 found the newer t2
\* stored; t2 is unexpired and the registry has no entry for its owner.
C27_Witness ==
    \E r \in Reqs, t1 \in issued, t2 \in issued :
        /\ req[r].route = "logout"
        /\ req[r].header = Bearer(t1)
        /\ req[r].res = LoggedOut
        /\ hist.found = "other"
        /\ t2.payload.id = t1.payload.id
        /\ t2.payload.iat > t1.payload.iat
        /\ now < t2.payload.exp
        /\ t1.payload.id \notin DOMAIN activeTokens

(* C28: when a logout is served for an id that has no entry in             *)
(* activeTokens, the answer is 200 {status: "ok", message: "Logged out"}   *)
(* and activeTokens is left exactly as it was.                             *)
C28_LogoutIdempotent ==
    [][\A r \in Reqs, tok \in issued :
         (/\ LogoutServedOn(r, tok)
          /\ tok.payload.id \notin DOMAIN activeTokens) =>
            /\ req'[r].res = LoggedOut
            /\ activeTokens' = activeTokens]_vars

\* A logout was served that found no entry for its user, while another
\* user's entry is there.
C28_Witness ==
    \E r \in Reqs, tok \in issued :
        /\ req[r].route = "logout"
        /\ req[r].header = Bearer(tok)
        /\ req[r].res = LoggedOut
        /\ hist.found = "none"
        /\ DOMAIN activeTokens # {}

----------------------------------------------------------------------------
(* The gate as a function of the request *)

\* What the header, the secret and the clock make of a request: the
\* response of a refusal, or none.
GateVerdict(header, key, clock) ==
    LET token == ExtractToken(header)
    IN IF Falsy(token) THEN Res(401, [message |-> "Token not provided"])
       ELSE IF /\ Len(token.s) = 1
               /\ token.s[1].k = "jwt"
               /\ token.s[1].tok.sig = <<key, token.s[1].tok.payload>>
               /\ clock < token.s[1].tok.payload.exp
            THEN NoRes
            ELSE Res(403, [message |-> "Invalid or expired token"])

(* C29: when the gate runs on a request, whether the request is refused    *)
(* with 401, refused with 403 or passed on is fixed by its header, the     *)
(* secret and the clock; the step leaves tbl_users unchanged, and leaves   *)
(* activeTokens unchanged unless it is the logout handler, reached after a *)
(* pass, that clears the entry.                                            *)
C29_GateIsPure ==
    [][\A r \in Reqs :
         GateStep(r) =>
            LET verdict == GateVerdict(req[r].header, SECRET_KEY, now)
            IN /\ (req'[r].gate = "AUTHENTICATED") <=> (verdict = NoRes)
               /\ verdict # NoRes => /\ req'[r].res = verdict
                                     /\ activeTokens' = activeTokens
               /\ req[r].route # "logout" => activeTokens' = activeTokens
               /\ tbl_users' = tbl_users]_vars

\* GET /users was refused with 403 on an expired token that activeTokens
\* still holds for its owner.
C29_Witness ==
    \E r \in Reqs, tok \in issued :
        /\ req[r].route = "users_list"
        /\ req[r].header = Bearer(tok)
        /\ req[r].res = Res(403, [message |-> "Invalid or expired token"])
        /\ tok.payload.id \in DOMAIN activeTokens
        /\ activeTokens[tok.payload.id] = tok

----------------------------------------------------------------------------
(* C22: stored passwords are always hashes *)

\* The passwords clients submit with POST /users and PUT /users/:id.
Submitted ==
    {b.password.v : b \in {c \in PostBodies \cup PutBodies : c.password.t = "string"}}

\* x is what bcrypt.hash returns for one of the passwords.
HasherOutput(x) ==
    /\ DOMAIN x = {"salt", "digest"}
    /\ \E p \in Submitted \cup {"pwA", "pwB"} : x = BcryptHash(p, x.salt)

\* C22: after any sequence of POST /users and PUT /users/:id requests, the
\* password of every user record is an output of the password hasher, never
\* the plaintext that was submitted.
C22_StoredPasswordsAreHashes ==
    \A row \in tbl_users : HasherOutput(row.password)

\* The store holds a record made by POST /users and a record whose password
\* PUT /users/:id changed.
C22_Witness ==
    /\ \E row \in tbl_users : row.id = 3 /\ row.username = "carol"
    /\ \E row \in tbl_users : row.id = 1 /\ row.password = BcryptHash("pwN", NewSalt)

----------------------------------------------------------------------------
(* C24: credential round trip *)

\* A record of username u exists.
KnowsUser(store, u) == \E row \in store : row.username = u.v

\* p is the password last set for the record of username u.
HoldsCredentials(store, u, p) ==
    \E row \in store : /\ row.username = u.v
                       /\ row.password = BcryptHash(p.v, row.password.salt)

\* The step on which request r, a /login of the server, is answered while
\* the store and the hasher answered it.
LoginAnswered(r) ==
    /\ req[r].route = "login_server"
    /\ req[r].pc # "done"
    /\ req'[r].pc = "done"
    /\ "store.error" \notin req'[r].calls

\* C24: for a user created with (u, p), as long as the password last set is
\* p (by POST /users or by PUT /users/:id), login with (u, p) succeeds and
\* login with (u, p') for p' # p is answered 401 "Invalid password".
C24_CredentialRoundTrip ==
    [][\A r \in Reqs :
          (LoginAnswered(r) /\ KnowsUser(tbl_users, req[r].body.username))
          => IF HoldsCredentials(tbl_users, req[r].body.username, req[r].body.password)
             THEN /\ req'[r].res.status = 200
                  /\ req'[r].res.body.message = "Login successful"
             ELSE req'[r].res = Res(401, [error |-> "Invalid password"])]_vars

----------------------------------------------------------------------------
(* C21, C23, C30: the /users routes *)

\* The routes of /users and /users/:id that take a token.
TokenGatedRoutes ==
    {"users_list", "users_put", "users_delete",
     "old_users_get", "old_users_put", "old_users_delete"}

\* The handler of rq has sent a statement to the store.
StoreReached(rq) == "store.query" \in rq.calls

\* C21: a GET /users, GET /users/:id, PUT /users/:id or DELETE /users/:id
\* request reaches the user store only after the auth gate has accepted a
\* valid bearer token on that request.
C21_StoreOnlyBehindGate ==
    \A r \in Reqs :
       (req[r].route \in TokenGatedRoutes /\ StoreReached(req[r]))
       => req[r].gate = "AUTHENTICATED"

\* The routes that create a user.
CreateRoutes == {"users_post", "old_users_post"}

\* C23: the response to a successful POST /users has the new id and the
\* user's fields, and neither a password field nor the submitted password
\* in any field.
C23_CreatedWithoutPassword ==
    \A r \in Reqs :
       (req[r].route \in CreateRoutes /\ req[r].res.status = 200)
       => /\ "password" \notin DOMAIN req[r].res.body
          /\ \A f \in DOMAIN req[r].res.body \ {"id"} :
                req[r].res.body[f] # req[r].body.password

\* The routes of /users/:id.
UserIdRoutes ==
    {"users_put", "users_delete", "old_users_get", "old_users_put", "old_users_delete"}

\* rq carries a token that was issued and has not expired.
CarriesValidToken(rq) ==
    \E tok \in issued : rq.header = Bearer(tok) /\ now < tok.payload.exp

\* C30: an authenticated GET, PUT or DELETE on /users/:id whose id no
\* record has is answered 404 "User not found", and the store is unchanged.
C30_UnknownIdIs404 ==
    [][\A r \in Reqs :
          ( /\ req[r].route \in UserIdRoutes
            /\ CarriesValidToken(req[r])
            /\ "store.rows" \in req'[r].calls \ req[r].calls
            /\ AffectedRows(tbl_users, req[r].params) = 0 )
          => /\ req'[r].res = UserNotFound
             /\ tbl_users' = tbl_users]_vars

----------------------------------------------------------------------------
(* C25, C26: the Session Registry under concurrent requests *)

\* Request r is a login of a handler that records its token.
RecordingLogin(r) == req[r].route \in {"login_server", "login_router"}

\* The user id a login in flight has fetched.
FetchedId(r) == (CHOOSE row \in req[r].rows : TRUE).id

\* C25: under every interleaving of concurrent logins and logouts, the
\* registry (a map, so one token per user id) holds under id i only a token
\* that a successful login of user i issued.
C25_RegistryIntegrity ==
    \A i \in DOMAIN activeTokens :
       /\ activeTokens[i] \in issued
       /\ activeTokens[i].payload.id = i
       /\ \E row \in InitialUsers :
             /\ row.id = i
             /\ activeTokens[i].payload.fullname = row.fullname

\* A login of user i waits for bcrypt.compare while a logout of user i has
\* been served in the other request, and the registry holds an entry written
\* by a login that was served since.
C25_Witness ==
    \E r, q \in ConcReqs :
       /\ RecordingLogin(r)
       /\ req[r].pc = "await_compare"
       /\ req[q].route = "logout"
       /\ req[q].res.status = 200
       /\ req[q].user.id = FetchedId(r)
       /\ DOMAIN activeTokens # {}

\* C26: whenever the registry has an entry for id i, it is the most
\* recently issued token for i: no token issued for i has a later iat.
C26_RegistryHoldsLatest ==
    \A i \in DOMAIN activeTokens :
       \A tok \in issued :
          tok.payload.id = i => tok.payload.iat <= activeTokens[i].payload.iat

\* Two logins of the same user, in flight together, were served at different
\* instants; the registry holds the token of the later one.
C26_Witness ==
    \E r, q \in ConcReqs :
       /\ RecordingLogin(r) /\ RecordingLogin(q)
       /\ req[r].res.status = 200 /\ req[q].res.status = 200
       /\ \E t1 \in req[r].minted, t2 \in req[q].minted :
             /\ t1.payload.id = t2.payload.id
             /\ t1.payload.iat < t2.payload.iat
             /\ activeTokens[t2.payload.id] = t2

====
